---- MODULE Spec2Model ----
(***************************************************************************)
(* Variational nodes of src/variational_nodes.py (Python 2 semantics: the  *)
(* module mixes tabs and spaces, which Python 2 reads with tab stops of 8  *)
(* columns).  A model is a set of node slots; a driver constructs nodes,   *)
(* calls update / updateParameters / updateExpectations on them and reads  *)
(* them through the getters.  Execution is single-threaded: a call on one  *)
(* node runs to completion before the next call starts.                    *)
(*                                                                         *)
(* Arrays are abstracted to one integer per array (their common element),  *)
(* except the spike-and-slab prior P_theta, which is a sequence because    *)
(* its length is what the constructor checks.                              *)
(***************************************************************************)
EXTENDS Integers, Sequences, FiniteSets, TLC

VARIABLES nodes, pc, calls, last, ret

vars == <<nodes, pc, calls, last, ret>>

(***************************************************************************)
(* Bounds of the model.                                                    *)
(***************************************************************************)
\* largest second dimension K of a node's dim=(N,K)
MaxK == 2
\* first dimension N of every dim=(N,K)
DimN == 2

\* the node slots of the model: n1 takes a node of any class, n2 takes a
\* collaborator of it (an observed node or a Bernoulli node)
NodeIds == {"n1", "n2"}
AnyClass == {"n1"}
\* values of array elements: two values tell a changed array from an
\* unchanged one, and a recomputed moment from a stale one
Vals == {1, 2}
\* second dimensions K
Ks == 1..MaxK

(***************************************************************************)
(* Python values.  Every attribute value and return value is a tagged      *)
(* record, so that None, arrays, floats, dicts and distributions compare.  *)
(***************************************************************************)
None == [tag |-> "None"]
Arr(v) == [tag |-> "array", v |-> v]
PyFloat(v) == [tag |-> "float", v |-> v]
PyInt(v) == [tag |-> "int", v |-> v]
List(s) == [tag |-> "seq", v |-> s]
Dict(items) == [tag |-> "dict", items |-> items]
\* an attribute the object does not have
Absent == [tag |-> "absent"]
\* an empty node slot (no object constructed there)
NoNode == [kind |-> "none"]

\* s.ones(k): a length-k vector of ones, scaled by x in x * s.ones(k)
Ones(k) == [i \in 1..k |-> 1]
Scale(x, v) == [i \in 1..Len(v) |-> x * v[i]]

(***************************************************************************)
(* The Distribution collaborator (distributions.py, not part of the node   *)
(* layer).  A distribution bundles the parameters of its family and the    *)
(* moments derived from them.                                              *)
(***************************************************************************)
RECURSIVE GCD(_, _)
GCD(a, b) == IF b = 0 THEN a ELSE GCD(b, a % b)
\* the quotient a/b in lowest terms
Frac(a, b) == [num |-> a \div GCD(a, b), den |-> b \div GCD(a, b)]

\* the moments of a family as a function of its parameters
Moments(family, p) ==
    CASE family = "UnivariateGaussian" ->
            [E |-> p.mean, E2 |-> p.mean * p.mean + p.var]
      [] family = "MultivariateGaussian" ->
            [E |-> p.mean, E2 |-> p.mean * p.mean + p.cov]
      [] family = "Gamma" ->
            \* E = a/b, an exact fraction; lnE = digamma(a) - ln(b), symbolic
            [E |-> Frac(p.a, p.b), lnE |-> [digamma |-> p.a, ln |-> p.b]]
      [] family = "Bernoulli" ->
            [E |-> p.theta]
      [] family = "BernoulliGaussian" ->
            \* E[S*W] = theta * mean
            [ESW |-> p.theta * p.mean]

\* Distribution.updateExpectations(): moments recomputed from the parameters
Distribution_updateExpectations(d) ==
    [d EXCEPT !.moments = Moments(d.family, d.params)]

\* Distribution(dim, params, E=..): moments given by the caller are stored
\* as they are; a moment that was not given is computed from the parameters
Distribution_init(family, dim, params, seed) ==
    LET m == Moments(family, params)
    IN  [tag |-> "Distribution", family |-> family, dim |-> dim,
         params |-> params,
         moments |-> [k \in DOMAIN m |->
                        IF k \in DOMAIN seed THEN seed[k] ELSE m[k]]]

\* no pre-seeded moment (E=None, E2=None)
NoSeed == [x \in {} |-> 0]

\* the moments of d are the ones its parameters give
Consistent(d) == d.moments = Moments(d.family, d.params)

(***************************************************************************)
(* Node (nodes.py): a dimensionality and a Markov blanket.                 *)
(***************************************************************************)
Node_init(kind, dim) ==
    [kind |-> kind, dim |-> dim, markov_blanket |-> {},
     obs |-> Absent, P |-> Absent, Q |-> Absent, P_theta |-> Absent]

\* addMarkovBlanket: the model assembly names the collaborators of n
Node_addMarkovBlanket(ns, n, blanket) ==
    [ns EXCEPT ![n].markov_blanket = blanket]

(***************************************************************************)
(* class Variational_Node.  A method takes the node slots ns and the slot  *)
(* n of self, and gives the slots after the call; a getter gives the       *)
(* value it returns.                                                       *)
(***************************************************************************)
Variational_Node_init(kind, dim) == Node_init(kind, dim)

Variational_Node_calculateELBO(ns, n) == PyFloat(0)

Variational_Node_updateExpectations(ns, n) == ns

Variational_Node_getExpectation(ns, n) == None

Variational_Node_getExpectations(ns, n) == None

Variational_Node_updateParameters(ns, n) == ns

Variational_Node_getParameters(ns, n) == None


\* update() with its two statements in the opposite order
Mutant_update_swapped == <<"updateExpectations", "updateParameters">>

\* the body of update(): the methods it calls on self, in order
Variational_Node_update == <<"updateParameters", "updateExpectations">>

(***************************************************************************)
(* class Observed_Variational_Node                                         *)
(***************************************************************************)
Observed_Variational_Node_init(dim, obs) ==
    [Variational_Node_init("Observed", dim) EXCEPT !.obs = obs]

Observed_Variational_Node_getObservations(ns, n) == ns[n].obs


\* getExpectation not overridden: the method of Variational_Node runs
Mutant_Observed_getExpectation(ns, n) == Variational_Node_getExpectation(ns, n)

Observed_Variational_Node_getExpectation(ns, n) ==
    Observed_Variational_Node_getObservations(ns, n)

(***************************************************************************)
(* class Unobserved_Variational_Node                                       *)
(***************************************************************************)

\* __init__ that does not initialise self.P and self.Q
Mutant_Unobserved_init(kind, dim) == Variational_Node_init(kind, dim)

Unobserved_Variational_Node_init(kind, dim) ==
    [Variational_Node_init(kind, dim) EXCEPT !.P = None, !.Q = None]


\* updateExpectations not overridden: the method of Variational_Node runs
Mutant_updateExpectations_noop(ns, n) == Variational_Node_updateExpectations(ns, n)

\* updateExpectations that also moves the parameters of Q on (the work of
\* update() done in updateExpectations())
Mutant_updateExpectations_update(ns, n) ==
    LET q == ns[n].Q
        moved == [k \in DOMAIN q.params |-> IF q.params[k] = 1 THEN 2 ELSE 1]
    IN  [ns EXCEPT ![n].Q =
            Distribution_updateExpectations([q EXCEPT !.params = moved])]

\* updateExpectations that also refreshes the Q of every unobserved node of
\* the Markov blanket
Mutant_updateExpectations_blanket(ns, n) ==
    [m \in DOMAIN ns |->
        IF (m = n \/ m \in ns[n].markov_blanket) /\ ns[m].kind \notin {"none", "Observed"}
        THEN [ns[m] EXCEPT !.Q = Distribution_updateExpectations(ns[m].Q)]
        ELSE ns[m]]

Unobserved_Variational_Node_updateExpectations(ns, n) ==
    [ns EXCEPT ![n].Q = Distribution_updateExpectations(ns[n].Q)]

Unobserved_Variational_Node_getExpectation(ns, n) == Arr(ns[n].Q.moments.E)

\* updateParameters of a model-specific subclass: the closed-form update of
\* the family sets new parameters of Q (computed from the collaborators)
Subclass_updateParameters(ns, n, newparams) ==
    [ns EXCEPT ![n].Q.params = newparams]

(***************************************************************************)
(* Family-specific unobserved nodes                                        *)
(***************************************************************************)
\* keyword moments E=qE, E2=qE2 of a distribution constructor: the ones
\* that are not None
Seed(kw) ==
    LET given == {k \in DOMAIN kw : kw[k] # None}
    IN  [k \in given |-> kw[k].v]

UnivariateGaussian_init(dim, pmean, pvar, qmean, qvar, qE, qE2) ==
    [Unobserved_Variational_Node_init("UnivariateGaussian", dim) EXCEPT
        !.P = Distribution_init("UnivariateGaussian", dim,
                                [mean |-> pmean, var |-> pvar], NoSeed),
        !.Q = Distribution_init("UnivariateGaussian", dim,
                                [mean |-> qmean, var |-> qvar],
                                Seed([E |-> qE, E2 |-> qE2]))]

UnivariateGaussian_getParameters(ns, n) ==
    Dict([mean |-> ns[n].Q.params.mean, var |-> ns[n].Q.params.var])

UnivariateGaussian_getExpectations(ns, n) ==
    Dict([E |-> ns[n].Q.moments.E, E2 |-> ns[n].Q.moments.E2])

\* the commented-out prior (line 151) leaves P as the base class set it
MultivariateGaussian_init(dim, qmean, qcov, qE, qE2) ==
    [Unobserved_Variational_Node_init("MultivariateGaussian", dim) EXCEPT
        !.Q = Distribution_init("MultivariateGaussian", dim,
                                [mean |-> qmean, cov |-> qcov],
                                Seed([E |-> qE, E2 |-> qE2]))]

\* lines 154-155 are indented with tabs: with tab stops of 8 columns the
\* def sits at the depth of the body of __init__, so it defines a function
\* local to __init__ and the class has no getParameters of its own
MultivariateGaussian_init_getParameters(ns, n) ==
    Dict([mean |-> ns[n].Q.params.mean, cov |-> ns[n].Q.params.cov])

MultivariateGaussian_getExpectations(ns, n) ==
    Dict([E |-> ns[n].Q.moments.E, E2 |-> ns[n].Q.moments.E2])

Gamma_init(dim, pa, pb, qa, qb, qE) ==
    [Unobserved_Variational_Node_init("Gamma", dim) EXCEPT
        !.P = Distribution_init("Gamma", <<1>>, [a |-> pa, b |-> pb], NoSeed),
        !.Q = Distribution_init("Gamma", dim, [a |-> qa, b |-> qb],
                                Seed([E |-> qE]))]

Gamma_getParameters(ns, n) ==
    Dict([a |-> ns[n].Q.params.a, b |-> ns[n].Q.params.b])


\* the commented-out line 179: the moment the family lacks as a None entry
Mutant_Gamma_getExpectations(ns, n) ==
    Dict([E |-> ns[n].Q.moments.E, lnE |-> ns[n].Q.moments.lnE, E2 |-> None])

Gamma_getExpectations(ns, n) ==
    Dict([E |-> ns[n].Q.moments.E, lnE |-> ns[n].Q.moments.lnE])

Bernoulli_init(dim, ptheta, qtheta, qE) ==
    [Unobserved_Variational_Node_init("Bernoulli", dim) EXCEPT
        !.P = Distribution_init("Bernoulli", <<1>>, [theta |-> ptheta], NoSeed),
        !.Q = Distribution_init("Bernoulli", dim, [theta |-> qtheta],
                                Seed([E |-> qE]))]

Bernoulli_getParameters(ns, n) == Dict([theta |-> ns[n].Q.params.theta])

Bernoulli_getExpectation(ns, n) == Arr(ns[n].Q.moments.E)

Bernoulli_getExpectations(ns, n) == Dict([E |-> ns[n].Q.moments.E])

\* len(x): defined for sequences only
HasLen(x) == x.tag = "seq"

\* the result of a constructor call: the node, or the exception raised
Ok(v) == [outcome |-> "ok", value |-> v]
Raise(exc) == [outcome |-> exc, value |-> NoNode]


\* the constructor without its assert: a sequence is stored as it is
Mutant_init_ptheta_noassert(dim, ptheta) ==
    IF ptheta.tag = "float"
    THEN Ok(Scale(ptheta.v, Ones(dim[2])))
    ELSE IF ~HasLen(ptheta)
    THEN Raise("TypeError")
    ELSE IF Len(ptheta.v) = 1
    THEN Ok(Scale(ptheta.v[1], Ones(dim[2])))
    ELSE Ok(ptheta.v)

\* lines 230-234: the prior spike probability.  type(ptheta) == float is
\* evaluated first; len(ptheta) raises TypeError on a value without length
BernoulliGaussian_init_ptheta(dim, ptheta) ==
    IF ptheta.tag = "float"
    THEN Ok(Scale(ptheta.v, Ones(dim[2])))
    ELSE IF ~HasLen(ptheta)
    THEN Raise("TypeError")
    ELSE IF Len(ptheta.v) = 1
    THEN Ok(Scale(ptheta.v[1], Ones(dim[2])))
    ELSE IF Len(ptheta.v) # dim[2]
    THEN Raise("AssertionError")
    ELSE Ok(ptheta.v)

BernoulliGaussian_init(dim, qmean, qvar, ptheta, qtheta) ==
    LET pt == BernoulliGaussian_init_ptheta(dim, ptheta)
    IN  IF pt.outcome # "ok" THEN Raise(pt.outcome)
        ELSE Ok([Unobserved_Variational_Node_init("BernoulliGaussian", dim) EXCEPT
                  !.P_theta = List(pt.value),
                  !.Q = Distribution_init("BernoulliGaussian", dim,
                            [theta |-> qtheta, mean |-> qmean, var |-> qvar],
                            NoSeed)])

BernoulliGaussian_getParameters(ns, n) ==
    Dict([theta |-> ns[n].Q.params.theta, mean |-> ns[n].Q.params.mean,
          var |-> ns[n].Q.params.var])

BernoulliGaussian_getExpectation(ns, n) == Arr(ns[n].Q.moments.ESW)

(***************************************************************************)
(* Method resolution: the implementation a call on a node of each class    *)
(* runs (the most derived class that defines the method).                  *)
(***************************************************************************)
Unobserved == {"UnivariateGaussian", "MultivariateGaussian", "Gamma",
               "Bernoulli", "BernoulliGaussian"}

IsNode(ns, n) == ns[n].kind # "none"
IsUnobserved(ns, n) == ns[n].kind \in Unobserved

updateParameters(ns, n) == Variational_Node_updateParameters(ns, n)

updateExpectations(ns, n) ==
    IF IsUnobserved(ns, n)
    THEN Unobserved_Variational_Node_updateExpectations(ns, n)
    ELSE Variational_Node_updateExpectations(ns, n)

calculateELBO(ns, n) == Variational_Node_calculateELBO(ns, n)

getParameters(ns, n) ==
    CASE ns[n].kind = "UnivariateGaussian" -> UnivariateGaussian_getParameters(ns, n)
      [] ns[n].kind = "Gamma" -> Gamma_getParameters(ns, n)
      [] ns[n].kind = "Bernoulli" -> Bernoulli_getParameters(ns, n)
      [] ns[n].kind = "BernoulliGaussian" -> BernoulliGaussian_getParameters(ns, n)
      [] OTHER -> Variational_Node_getParameters(ns, n)

getExpectations(ns, n) ==
    CASE ns[n].kind = "UnivariateGaussian" -> UnivariateGaussian_getExpectations(ns, n)
      [] ns[n].kind = "MultivariateGaussian" -> MultivariateGaussian_getExpectations(ns, n)
      [] ns[n].kind = "Gamma" -> Gamma_getExpectations(ns, n)
      [] ns[n].kind = "Bernoulli" -> Bernoulli_getExpectations(ns, n)
      [] OTHER -> Variational_Node_getExpectations(ns, n)

getExpectation(ns, n) ==
    CASE ns[n].kind = "Observed" -> Observed_Variational_Node_getExpectation(ns, n)
      [] ns[n].kind = "Bernoulli" -> Bernoulli_getExpectation(ns, n)
      [] ns[n].kind = "BernoulliGaussian" -> BernoulliGaussian_getExpectation(ns, n)
      [] OTHER -> Unobserved_Variational_Node_getExpectation(ns, n)

\* the parameter records a closed-form update of the family can produce
ParamSpace(kind) ==
    CASE kind = "UnivariateGaussian" -> [mean : Vals, var : Vals]
      [] kind = "MultivariateGaussian" -> [mean : Vals, cov : Vals]
      [] kind = "Gamma" -> [a : Vals, b : Vals]
      [] kind = "Bernoulli" -> [theta : Vals]
      [] kind = "BernoulliGaussian" -> [theta : Vals, mean : Vals, var : Vals]
      [] OTHER -> {}

\* what a call self.updateParameters() may run: the method of this layer,
\* or the override of a model-specific subclass producing the parameters hook
Hooks(ns, n) == {None} \cup ParamSpace(ns[n].kind)

\* one statement "self.<method>()" of a method body
Exec(method, ns, n, hook) ==
    CASE method = "updateParameters" ->
            IF hook = None THEN updateParameters(ns, n)
            ELSE Subclass_updateParameters(ns, n, hook)
      [] method = "updateExpectations" -> updateExpectations(ns, n)

(***************************************************************************)
(* The driver.  last records the latest call made on the model (its        *)
(* method, node, arguments and outcome), ret the value it returned, calls  *)
(* the methods the latest call has run on self, pc the position inside a   *)
(* running update() (0: no call is running).                               *)
(***************************************************************************)
NoArgs == [tag |-> "noargs"]

Call(op, n, args, outcome) ==
    [op |-> op, node |-> n, args |-> args, outcome |-> outcome,
     rep |-> (op = "updateExpectations" /\ last.op = "updateExpectations"
              /\ last.node = n)]

\* a constructor call on the empty slot n that gives res
Construct(op, n, args, res) ==
    /\ pc = 0
    /\ nodes[n] = NoNode
    /\ nodes' = IF res.outcome = "ok" THEN [nodes EXCEPT ![n] = res.value]
                ELSE nodes
    /\ last' = Call(op, n, args, res.outcome)
    /\ ret' = None
    /\ UNCHANGED <<pc, calls>>

\* a getter call on node n that returns v and changes nothing
Getter(op, n, v) ==
    /\ pc = 0
    /\ IsNode(nodes, n)
    /\ last' = Call(op, n, NoArgs, "ok")
    /\ ret' = v
    /\ calls' = <<>>
    /\ UNCHANGED <<nodes, pc>>

\* pre-seeded moments a caller passes: none, or an array (a caller seeds
\* every moment of the family or none)
SeedArgs == {None, Arr(1)}
\* hyperparameters of the priors
PriorVals == {1}
\* the dims the driver builds nodes with
Dims == {<<DimN, k>> : k \in Ks}

Init ==
    /\ nodes = [n \in NodeIds |-> NoNode]
    /\ pc = 0
    /\ calls = <<>>
    /\ last = [op |-> "none", node |-> "n1", args |-> NoArgs,
               outcome |-> "ok", rep |-> FALSE]
    /\ ret = None

Construct_Observed(n) ==
    \E obs \in Vals :
        Construct("Observed", n, NoArgs,
                  Ok(Observed_Variational_Node_init(<<DimN, MaxK>>, Arr(obs))))

Construct_UnivariateGaussian(n) ==
    \E pmean \in PriorVals, pvar \in PriorVals, qmean \in Vals, qvar \in Vals,
       qE \in SeedArgs :
      LET qE2 == qE
      IN  Construct("UnivariateGaussian", n, [qE |-> qE, qE2 |-> qE2],
                  Ok(UnivariateGaussian_init(<<DimN, MaxK>>, pmean, pvar,
                                             qmean, qvar, qE, qE2)))

Construct_MultivariateGaussian(n) ==
    \E qmean \in Vals, qcov \in Vals, qE \in SeedArgs :
      LET qE2 == qE
      IN  Construct("MultivariateGaussian", n, [qE |-> qE, qE2 |-> qE2],
                  Ok(MultivariateGaussian_init(<<DimN, MaxK>>, qmean, qcov,
                                               qE, qE2)))

Construct_Gamma(n) ==
    \E pa \in PriorVals, pb \in PriorVals, qa \in Vals, qb \in Vals,
       qE \in {None, Arr(Frac(1, 1))} :
        Construct("Gamma", n, [qE |-> qE],
                  Ok(Gamma_init(<<DimN, MaxK>>, pa, pb, qa, qb, qE)))

Construct_Bernoulli(n) ==
    \E ptheta \in PriorVals, qtheta \in Vals, qE \in SeedArgs :
        Construct("Bernoulli", n, [qE |-> qE],
                  Ok(Bernoulli_init(<<DimN, MaxK>>, ptheta, qtheta, qE)))

\* the sequence 1, 2, .., len: its entries differ, so a broadcast shows
SeqOfLen(len) == [i \in 1..len |-> i]

\* the ptheta arguments of the spike-and-slab constructor: a float, a scalar
\* that is no float (an int, a numpy scalar), sequences of each length
PthetaArgs ==
    {PyFloat(v) : v \in PriorVals} \cup {PyInt(v) : v \in PriorVals}
    \cup {List(SeqOfLen(len)) : len \in 0..(MaxK + 1)}

Construct_BernoulliGaussian(n) ==
    \E dim \in Dims, ptheta \in PthetaArgs,
       qmean \in Vals, qvar \in Vals, qtheta \in Vals :
        Construct("BernoulliGaussian", n, [dim |-> dim, ptheta |-> ptheta],
                  BernoulliGaussian_init(dim, qmean, qvar, ptheta, qtheta))

\* the model assembly sets the Markov blanket of n once every node exists
Call_addMarkovBlanket(n) ==
    /\ pc = 0
    /\ \A m \in NodeIds : IsNode(nodes, m)
    /\ nodes' = Node_addMarkovBlanket(nodes, n, NodeIds \ {n})
    /\ last' = Call("addMarkovBlanket", n, NoArgs, "ok")
    /\ ret' = None
    /\ calls' = <<>>
    /\ UNCHANGED pc

Call_updateParameters(n) ==
    /\ pc = 0
    /\ IsNode(nodes, n)
    /\ \E hook \in Hooks(nodes, n) :
          nodes' = Exec("updateParameters", nodes, n, hook)
    /\ last' = Call("updateParameters", n, NoArgs, "ok")
    /\ ret' = None
    /\ calls' = <<"updateParameters">>
    /\ UNCHANGED pc

Call_updateExpectations(n) ==
    /\ pc = 0
    /\ IsNode(nodes, n)
    /\ nodes' = Exec("updateExpectations", nodes, n, None)
    /\ last' = Call("updateExpectations", n, NoArgs, "ok")
    /\ ret' = None
    /\ calls' = <<"updateExpectations">>
    /\ UNCHANGED pc

\* update() is entered: its first statement is next
Call_update(n) ==
    /\ pc = 0
    /\ IsNode(nodes, n)
    /\ pc' = 1
    /\ last' = Call("update", n, NoArgs, "running")
    /\ ret' = None
    /\ calls' = <<>>
    /\ UNCHANGED nodes

\* update() runs its next statement, and returns after the last one
Step_update ==
    /\ pc > 0
    /\ LET stmt == Variational_Node_update[pc]
           n == last.node
       IN  /\ \E hook \in Hooks(nodes, n) :
                 nodes' = Exec(stmt, nodes, n, hook)
           /\ calls' = Append(calls, stmt)
    /\ IF pc = Len(Variational_Node_update)
       THEN /\ pc' = 0
            /\ last' = [last EXCEPT !.outcome = "ok"]
       ELSE /\ pc' = pc + 1
            /\ UNCHANGED last
    /\ UNCHANGED ret

Call_calculateELBO(n) == Getter("calculateELBO", n, calculateELBO(nodes, n))

Call_getParameters(n) == Getter("getParameters", n, getParameters(nodes, n))

Call_getExpectations(n) == Getter("getExpectations", n, getExpectations(nodes, n))

Call_getExpectation(n) == Getter("getExpectation", n, getExpectation(nodes, n))

Call_getObservations(n) ==
    /\ nodes[n].kind = "Observed"
    /\ Getter("getObservations", n,
              Observed_Variational_Node_getObservations(nodes, n))

Next ==
    \/ \E n \in NodeIds : Construct_Observed(n)
    \/ \E n \in AnyClass : Construct_UnivariateGaussian(n)
    \/ \E n \in AnyClass : Construct_MultivariateGaussian(n)
    \/ \E n \in AnyClass : Construct_Gamma(n)
    \/ \E n \in NodeIds : Construct_Bernoulli(n)
    \/ \E n \in AnyClass : Construct_BernoulliGaussian(n)
    \/ \E n \in NodeIds : Call_addMarkovBlanket(n)
    \/ \E n \in NodeIds : Call_updateParameters(n)
    \/ \E n \in NodeIds : Call_updateExpectations(n)
    \/ \E n \in NodeIds : Call_update(n)
    \/ Step_update
    \/ \E n \in NodeIds : Call_calculateELBO(n)
    \/ \E n \in NodeIds : Call_getParameters(n)
    \/ \E n \in NodeIds : Call_getExpectations(n)
    \/ \E n \in NodeIds : Call_getExpectation(n)
    \/ \E n \in NodeIds : Call_getObservations(n)

Spec == Init /\ [][Next]_vars

(***************************************************************************)
(* Properties                                                              *)
(***************************************************************************)
\* the step runs a statement of update(), updateParameters() or
\* updateExpectations() on node n
UpdateCallOn(n) ==
    /\ last'.node = n
    /\ last'.op \in {"update", "updateParameters", "updateExpectations"}

\* the step runs the method updateParameters() of node n (called by the
\* driver or by update())
RunsUpdateParameters(n) ==
    /\ UpdateCallOn(n)
    /\ calls' # <<>>
    /\ calls'[Len(calls')] = "updateParameters"

\* the step is the construction of node n
Constructs(n) == nodes[n] = NoNode /\ nodes'[n] # NoNode

\* the latest call constructed a node of one of the five families
JustConstructed == last.op \in Unobserved /\ last.outcome = "ok"

\* the parameter keys and the moment keys documented for each family
DocumentedParameters(kind) ==
    CASE kind = "UnivariateGaussian" -> {"mean", "var"}
      [] kind = "MultivariateGaussian" -> {"mean", "cov"}
      [] kind = "Gamma" -> {"a", "b"}
      [] kind = "Bernoulli" -> {"theta"}
      [] kind = "BernoulliGaussian" -> {"theta", "mean", "var"}

DocumentedMoments(kind) ==
    CASE kind = "UnivariateGaussian" -> {"E", "E2"}
      [] kind = "MultivariateGaussian" -> {"E", "E2"}
      [] kind = "Gamma" -> {"E", "lnE"}
      [] kind = "Bernoulli" -> {"E"}

\* r is a mapping with exactly the keys ks, each holding the value of src
MappingOf(r, ks, src) ==
    /\ r.tag = "dict"
    /\ DOMAIN r.items = ks
    /\ \A k \in ks : r.items[k] = src[k]

\* C1: one update() call runs updateParameters() once and then
\* updateExpectations() once: while update() runs, the methods it has run
\* are a prefix of that sequence (updateExpectations() starts only after
\* updateParameters() has finished), and when it has returned they are
\* exactly that sequence.
C1_UpdateOrder ==
    last.op = "update" =>
        LET order == <<"updateParameters", "updateExpectations">>
        IN  IF pc = 0 THEN calls = order
            ELSE pc <= 2 /\ calls = SubSeq(order, 1, pc - 1)

C1_Witness ==
    /\ last.op = "update" /\ pc = 0 /\ last.outcome = "ok"
    /\ IsUnobserved(nodes, last.node)
    /\ Len(calls) = 2

C3_ParameterKeys ==
    (last.op = "getParameters" /\ IsUnobserved(nodes, last.node)) =>
        MappingOf(ret, DocumentedParameters(nodes[last.node].kind),
                  nodes[last.node].Q.params)

\* the latest call was the spike-and-slab constructor
BGCall == last.op = "BernoulliGaussian"

\* the spike-and-slab constructor failed and produced no node
BGFailed == last.outcome # "ok" /\ nodes[last.node] = NoNode

\* the spike-and-slab constructor produced a node whose P_theta is the
\* value x repeated K times
BGBroadcast(x) ==
    /\ last.outcome = "ok"
    /\ nodes[last.node].kind = "BernoulliGaussian"
    /\ nodes[last.node].P_theta = List([i \in 1..last.args.dim[2] |-> x])

\* every spike-and-slab node stores a P_theta of length K = dim[1]
PThetaHasLengthK ==
    \A n \in NodeIds :
        nodes[n].kind = "BernoulliGaussian" =>
            Len(nodes[n].P_theta.v) = nodes[n].dim[2]

\* C4 (as amended): the spike-and-slab constructor with dim=(N,K) and a
\* sequence ptheta whose length is neither K nor 1 fails with an
\* AssertionError and produces no node; a sequence of length 1 is accepted
\* and its entry broadcast to K entries; no node stores a P_theta of a
\* length other than K.
C4_PthetaLength ==
    /\ PThetaHasLengthK
    /\ (BGCall /\ HasLen(last.args.ptheta)) =>
          LET len == Len(last.args.ptheta.v)
              K == last.args.dim[2]
          IN  /\ len \notin {1, K} =>
                    (last.outcome = "AssertionError" /\ BGFailed)
              /\ len = 1 => BGBroadcast(last.args.ptheta.v[1])

C4_Witness ==
    /\ BGCall /\ HasLen(last.args.ptheta)
    /\ Len(last.args.ptheta.v) = 3 /\ last.args.dim[2] = 2
    /\ last.outcome = "AssertionError"

\* C4 (original): the spike-and-slab constructor fails for every sequence
\* ptheta whose length is not K, length 1 with K > 1 included.
C4_Original_EveryOtherLengthFails ==
    (BGCall /\ HasLen(last.args.ptheta)
        /\ Len(last.args.ptheta.v) # last.args.dim[2]) => BGFailed

\* C5: the spike-and-slab constructor with a scalar ptheta, of the float
\* type or not, succeeds and stores P_theta of shape (K,) with every entry
\* equal to the scalar.
C5_ScalarBroadcast ==
    (BGCall /\ ~HasLen(last.args.ptheta)) => BGBroadcast(last.args.ptheta.v)

\* C6: an observed node keeps the obs it was constructed with through
\* every call, and getExpectation() and getObservations() both return it.
C6_ObservedImmutable ==
    [][\A n \in NodeIds :
        nodes[n].kind = "Observed" =>
          /\ nodes'[n].kind = "Observed"
          /\ nodes'[n].obs = nodes[n].obs
          /\ (last'.node = n /\ last'.op \in {"getExpectation", "getObservations"})
                => ret' = nodes[n].obs]_vars

C6_Witness ==
    /\ last.op = "getExpectation"
    /\ nodes[last.node].kind = "Observed"
    /\ nodes[last.node].markov_blanket # {}
    /\ ret = nodes[last.node].obs

\* C7 (as amended): getExpectations() returns a mapping holding exactly the
\* moments of the family for the univariate Gaussian, multivariate Gaussian
\* ({E, E2}), Gamma ({E, lnE}) and Bernoulli ({E}) nodes; the
\* Bernoulli-Gaussian node defines no getExpectations() and returns None.
C7_ExpectationKeys ==
    (last.op = "getExpectations" /\ IsUnobserved(nodes, last.node)) =>
        IF nodes[last.node].kind = "BernoulliGaussian"
        THEN ret = None
        ELSE MappingOf(ret, DocumentedMoments(nodes[last.node].kind),
                       nodes[last.node].Q.moments)

C7_Witness ==
    /\ last.op = "getExpectations"
    /\ nodes[last.node].kind = "Gamma"
    /\ ret.tag = "dict"
    /\ DOMAIN ret.items = {"E", "lnE"}

\* C7 (original): getExpectations() of every one of the five families
\* returns a mapping whose keys are among E, E2, lnE, never a non-mapping.
C7_Original_AlwaysMapping ==
    (last.op = "getExpectations" /\ IsUnobserved(nodes, last.node)) =>
        /\ ret.tag = "dict"
        /\ DOMAIN ret.items \subseteq {"E", "E2", "lnE"}

\* C8 (as amended): every unobserved node holds one posterior Q, present
\* from construction on; the univariate Gaussian, Gamma and Bernoulli nodes
\* also hold a prior P, while the multivariate Gaussian and
\* Bernoulli-Gaussian nodes have P = None in every state.
C8_PriorAndPosterior ==
    \A n \in NodeIds :
        IsUnobserved(nodes, n) =>
          /\ nodes[n].Q.tag = "Distribution"
          /\ nodes[n].Q.family = nodes[n].kind
          /\ IF nodes[n].kind \in {"MultivariateGaussian", "BernoulliGaussian"}
             THEN nodes[n].P = None
             ELSE nodes[n].P.tag = "Distribution"
                    /\ nodes[n].P.family = nodes[n].kind

C8_Witness ==
    /\ last.op = "update" /\ pc = 0
    /\ nodes[last.node].kind = "MultivariateGaussian"
    /\ nodes[last.node].P = None
    /\ nodes[last.node].Q.tag = "Distribution"

\* C8 (original): every unobserved node of the five families holds a prior
\* P and a posterior Q, neither of them None.
C8_Original_BothPresent ==
    \A n \in NodeIds :
        IsUnobserved(nodes, n) =>
            nodes[n].P.tag = "Distribution" /\ nodes[n].Q.tag = "Distribution"

\* C9: updateExpectations() of an unobserved node never changes the
\* parameters of Q, and a second call right after a first one leaves the
\* moments as the first call left them.
C9_UpdateExpectationsIdempotent ==
    [][\A n \in NodeIds :
        (IsUnobserved(nodes, n) /\ pc = 0 /\ pc' = 0
            /\ last'.node = n /\ last'.op = "updateExpectations") =>
          /\ nodes'[n].Q.params = nodes[n].Q.params
          /\ last'.rep => nodes'[n].Q.moments = nodes[n].Q.moments]_vars

C9_Witness ==
    /\ last.op = "updateExpectations" /\ last.rep
    /\ IsUnobserved(nodes, last.node)
    /\ Consistent(nodes[last.node].Q)

\* C10: a step of update(), updateParameters() or updateExpectations() on
\* node n changes nothing but the Q of n: the P, P_theta, dim, obs and
\* markov_blanket of n and every other node stay as they were.
C10_OnlyOwnQ ==
    [][\A n \in NodeIds :
        UpdateCallOn(n) =>
          /\ \A m \in NodeIds \ {n} : nodes'[m] = nodes[m]
          /\ nodes'[n] = [nodes[n] EXCEPT !.Q = nodes'[n].Q]]_vars

C10_Witness ==
    /\ last.op = "update" /\ pc = 0
    /\ IsUnobserved(nodes, last.node)
    /\ nodes[last.node].markov_blanket # {}
    /\ \E m \in nodes[last.node].markov_blanket :
          IsUnobserved(nodes, m) /\ ~Consistent(nodes[m].Q)

====
